---- MODULE Spec2Model ----
(***************************************************************************)
(* Control Room actions (actions.py, models.py): a facade over the remote  *)
(* REST API.  Every action handler is modelled together with the HTTP      *)
(* exchanges it performs.  The remote side is the environment: each        *)
(* response (status code and body) is chosen nondeterministically at the   *)
(* point where the handler blocks on requests.get / requests.post.         *)
(*                                                                         *)
(* Encoding of Python values:                                              *)
(*   None / JSON null   <<>>           Optional value v   <<v>>            *)
(*   dict               function with a set of string keys as domain      *)
(*   list               sequence                                           *)
(*   f-string           sequence of its literal and interpolated parts     *)
(***************************************************************************)
EXTENDS Integers, Sequences, FiniteSets, TLC

VARIABLES pc, op, input_data, requests, responses,
          result_data, has_more, next_url,
          idx, selected_work_item_details, update_results, ret

vars == <<pc, op, input_data, requests, responses,
          result_data, has_more, next_url,
          idx, selected_work_item_details, update_results, ret>>

\* ------------------------------------------------------------------ bounds
MaxGets == 3
MaxPageLen == 1
MaxIds == 3

\* ------------------------------------------------------- value encodings
None == <<>>
Some(v) == <<v>>

EmptyDict == <<>>
Entry(k, o) == IF o = None THEN EmptyDict ELSE (k :> o[1])
Get(d, k, default) == IF k \in DOMAIN d THEN d[k] ELSE default

Range(s) == {s[i] : i \in DOMAIN s}
SeqUpTo(S, n) == UNION {[1..m -> S] : m \in 0..n}
Opt(S) == {None} \cup {Some(v) : v \in S}

\* Python truthiness of a str-or-None value and of a dict
TruthyStr(o) == o # None /\ o[1] # ""
TruthyDict(d) == DOMAIN d # {}

\* ------------------------------------------------------- configuration
BASE_URL == "https://cloud.robocorp.com/api/v1/workspaces"
workspace_id == "WORKSPACE_ID"

\* ------------------------------------------------------- HTTP exchange
\* A response carries its status code and its raw body text; json() decodes
\* the text back into the document it serialises.
Text(doc) == [raw |-> doc]
Response(status, doc) == [status_code |-> status, text |-> Text(doc)]
json(response) == response.text.raw

Request(method, url, body) == [method |-> method, url |-> url, json |-> body]

ActionError_NoBody(prefix, response) == [kind |-> "error", message |-> <<[lit |-> prefix]>>]
ActionError(prefix, response) == [kind |-> "error", message |-> <<[lit |-> prefix], response.text>>]
Result(result) == [kind |-> "result", result |-> result]
NoReturn == [kind |-> "none"]

StatusOk(status_code) == status_code \in {200, 201}

make_get_request_NoRaise(response) == Result(json(response))
make_get_request_Any2xx(response) ==
    IF response.status_code \in 200..299
    THEN Result(json(response))
    ELSE ActionError("Failed to retrieve data: ", response)
make_get_request(response) ==
    IF StatusOk(response.status_code)
    THEN Result(json(response))
    ELSE ActionError("Failed to retrieve data: ", response)

\* ------------------------------------------------------- remote side
OkStatuses == {200, 201}
FailStatuses == {204, 500}
Items == {"a", "b"}
NextUrls == {"next1", "next2"}
ErrDocs == {[error |-> "not found"], [error |-> "internal"]}

PageDoc(d, h, n) == Entry("data", d) @@ Entry("has_more", h) @@ Entry("next", n)
PageDocs ==
    {PageDoc(d, h, n) : d \in Opt(SeqUpTo(Items, MaxPageLen)),
                        h \in Opt(BOOLEAN),
                        n \in Opt(Opt({"", "next1"}))}
        \cup {PageDoc(Some(<<"b">>), h, Some(Some("next2"))) : h \in Opt(BOOLEAN)}
\* a failing response may still carry a well-formed page as its body
FailDocs == ErrDocs \cup {PageDoc(Some(<<"a">>), Some(TRUE), Some(Some("next1")))}

PageResponses ==
    {Response(200, d) : d \in PageDocs}
        \cup {Response(201, PageDoc(Some(<<"b">>), Some(TRUE), Some(Some("next1")))),
              Response(201, PageDoc(Some(<<"a">>), None, Some(Some("next2"))))}
        \cup {Response(s, d) : s \in FailStatuses, d \in FailDocs}

\* ------------------------------------------------------- list_work_items
WorkItemStates_AsRuns == {"new", "in_progress", "completed", "unresolved", "stopping"}
WorkItemStates == {"new", "pending", "in_progress", "failed", "done"}

ListWorkItemsInput(process_id, process_run_id, state) ==
    [process_id |-> process_id, process_run_id |-> process_run_id, state |-> state]

StateParam(state, allowed) ==
    IF state # None /\ state[1] \in allowed THEN <<"&state=", state[1]>> ELSE <<>>

list_work_items_url(input) ==
    <<BASE_URL, "/", workspace_id, "/work-items?process_id=", input.process_id,
      "&process_run_id=", input.process_run_id>>
        \o StateParam(input.state, WorkItemStates)

Extend_Prepend(list, additional) == additional \o list
Extend(list, additional) == list \o additional

LoopCond_NextOnly(more, next) == TruthyStr(next)
LoopCond(more, next) == more /\ TruthyStr(next)

\* lines 197-206: build the URL, fetch the first page, read its fields
list_work_items(input, response) ==
    /\ pc = "idle"
    /\ op' = "list_work_items"
    /\ input_data' = input
    /\ requests' = Append(requests, Request("GET", list_work_items_url(input), None))
    /\ responses' = Append(responses, response)
    /\ LET r == make_get_request(response) IN
        IF r.kind = "error"
        THEN /\ pc' = "raised"
             /\ ret' = r
             /\ UNCHANGED <<result_data, has_more, next_url>>
        ELSE /\ pc' = "list_loop"
             /\ result_data' = Get(r.result, "data", <<>>)
             /\ has_more' = Get(r.result, "has_more", FALSE)
             /\ next_url' = Get(r.result, "next", None)
             /\ UNCHANGED ret
    /\ UNCHANGED <<idx, selected_work_item_details, update_results>>

\* lines 208-213: one iteration of the pagination loop
list_work_items_loop(response) ==
    /\ pc = "list_loop"
    /\ LoopCond(has_more, next_url)
    /\ Len(requests) < MaxGets
    /\ requests' = Append(requests, Request("GET", <<next_url[1]>>, None))
    /\ responses' = Append(responses, response)
    /\ LET r == make_get_request(response) IN
        IF r.kind = "error"
        THEN /\ pc' = "raised"
             /\ ret' = r
             /\ UNCHANGED <<result_data, has_more, next_url>>
        ELSE /\ pc' = "list_loop"
             /\ result_data' = Extend(result_data, Get(r.result, "data", <<>>))
             /\ has_more' = Get(r.result, "has_more", FALSE)
             /\ next_url' = Get(r.result, "next", None)
             /\ UNCHANGED ret
    /\ UNCHANGED <<op, input_data, idx, selected_work_item_details, update_results>>

\* line 215: the loop condition is false, return the accumulated data
list_work_items_return ==
    /\ pc = "list_loop"
    /\ ~LoopCond(has_more, next_url)
    /\ pc' = "returned"
    /\ ret' = Result([data |-> result_data])
    /\ UNCHANGED <<op, input_data, requests, responses, result_data, has_more,
                   next_url, idx, selected_work_item_details, update_results>>

\* ------------------------------------------------------- pass-through GETs
\* lines 43-48 applied to one URL: the whole handler is a single exchange
get_action(name, input, url, response) ==
    /\ pc = "idle"
    /\ op' = name
    /\ input_data' = input
    /\ requests' = Append(requests, Request("GET", url, None))
    /\ responses' = Append(responses, response)
    /\ LET r == make_get_request(response) IN
        /\ pc' = IF r.kind = "error" THEN "raised" ELSE "returned"
        /\ ret' = r
    /\ UNCHANGED <<result_data, has_more, next_url, idx,
                   selected_work_item_details, update_results>>

list_processes(response) ==
    get_action("list_processes", EmptyDict,
               <<BASE_URL, "/", workspace_id, "/processes">>, response)

ProcessRunStates == {"new", "in_progress", "completed", "unresolved", "stopping"}

ListProcessRunsInput(process_id, limit, state) ==
    [process_id |-> process_id, limit |-> limit, state |-> state]

LimitParam(limit) == IF limit # None THEN <<"&limit=", ToString(limit[1])>> ELSE <<>>

list_process_runs_url(input) ==
    <<BASE_URL, "/", workspace_id, "/process-runs?process_id=", input.process_id>>
        \o LimitParam(input.limit)
        \o StateParam(input.state, ProcessRunStates)

list_process_runs(input, response) ==
    get_action("list_process_runs", input, list_process_runs_url(input), response)

list_step_runs(process_run_id, response) ==
    get_action("list_step_runs", [process_run_id |-> process_run_id],
               <<BASE_URL, "/", workspace_id, "/step-runs?process_run_id=",
                 process_run_id, "&limit=1">>, response)

list_step_run_artifacts(step_run_id, response) ==
    get_action("list_step_run_artifacts", [step_run_id |-> step_run_id],
               <<BASE_URL, "/", workspace_id, "/step-runs/", step_run_id,
                 "/artifacts">>, response)

get_step_run_artifact(step_run_id, artifact_id, response) ==
    get_action("get_step_run_artifact",
               [step_run_id |-> step_run_id, artifact_id |-> artifact_id],
               <<BASE_URL, "/", workspace_id, "/step-runs/", step_run_id,
                 "/artifacts/", artifact_id>>, response)

list_workers(response) ==
    get_action("list_workers", EmptyDict,
               <<BASE_URL, "/", workspace_id, "/workers">>, response)

list_assets(response) ==
    get_action("list_assets", EmptyDict,
               <<BASE_URL, "/", workspace_id, "/assets">>, response)

get_asset(asset_id, response) ==
    get_action("get_asset", [asset_id |-> asset_id],
               <<BASE_URL, "/", workspace_id, "/assets/", asset_id>>, response)

\* ------------------------------------------------------- start_process_run
start_process_run(process_id, response) ==
    /\ pc = "idle"
    /\ op' = "start_process_run"
    /\ input_data' = [process_id |-> process_id]
    /\ requests' = Append(requests,
           Request("POST", <<BASE_URL, "/", workspace_id, "/processes/",
                             process_id, "/process-runs">>, None))
    /\ responses' = Append(responses, response)
    /\ IF StatusOk(response.status_code)
       THEN pc' = "returned" /\ ret' = Result(json(response))
       ELSE pc' = "raised" /\ ret' = ActionError("Failed to start process run: ", response)
    /\ UNCHANGED <<result_data, has_more, next_url, idx,
                   selected_work_item_details, update_results>>

\* ------------------------------------------------------- get_all_work_items
work_item_url(work_item_id) ==
    <<BASE_URL, "/", workspace_id, "/work-items/", work_item_id>>

Project_Whole(result) == result
Project(result) ==
    [id |-> Get(result, "id", None),
     exception |-> Get(result, "exception", None),
     payload |-> Get(result, "payload", None)]

\* line 230
get_all_work_items(work_item_ids) ==
    /\ pc = "idle"
    /\ op' = "get_all_work_items"
    /\ input_data' = [work_item_ids |-> work_item_ids]
    /\ selected_work_item_details' = <<>>
    /\ idx' = 1
    /\ pc' = "get_loop"
    /\ UNCHANGED <<requests, responses, result_data, has_more, next_url,
                   update_results, ret>>

\* lines 232-241: one iteration of the for loop
get_all_work_items_loop(response) ==
    /\ pc = "get_loop"
    /\ idx <= Len(input_data.work_item_ids)
    /\ requests' = Append(requests,
           Request("GET", work_item_url(input_data.work_item_ids[idx]), None))
    /\ responses' = Append(responses, response)
    /\ LET r == make_get_request(response) IN
        IF r.kind = "error"
        THEN /\ pc' = "raised"
             /\ ret' = r
             /\ UNCHANGED <<idx, selected_work_item_details>>
        ELSE /\ selected_work_item_details' =
                    Append(selected_work_item_details, Project(r.result))
             /\ idx' = idx + 1
             /\ UNCHANGED <<pc, ret>>
    /\ UNCHANGED <<op, input_data, result_data, has_more, next_url, update_results>>

\* line 243
get_all_work_items_return ==
    /\ pc = "get_loop"
    /\ idx > Len(input_data.work_item_ids)
    /\ pc' = "returned"
    /\ ret' = Result([data |-> selected_work_item_details])
    /\ UNCHANGED <<op, input_data, requests, responses, result_data, has_more,
                   next_url, idx, selected_work_item_details, update_results>>

\* ------------------------------------------------------- update_work_item_payloads
WorkItemUpdate(work_item_id, payload) ==
    [work_item_id |-> work_item_id, payload |-> payload]

\* line 264: `if work_item_id and payload`
ValidUpdate_IdOnly(update) == update.work_item_id # ""
ValidUpdate(update) == update.work_item_id # "" /\ TruthyDict(update.payload)

payload_url(work_item_id) ==
    <<BASE_URL, "/", workspace_id, "/work-items/", work_item_id, "/payload">>

update_outcome_Only200(work_item_id, response) ==
    IF response.status_code = 200
    THEN [work_item_id |-> work_item_id, status |-> "success",
          response |-> json(response)]
    ELSE [work_item_id |-> work_item_id, status |-> "failure",
          error |-> response.text]
\* lines 268-283
update_outcome(work_item_id, response) ==
    IF StatusOk(response.status_code)
    THEN [work_item_id |-> work_item_id, status |-> "success",
          response |-> json(response)]
    ELSE [work_item_id |-> work_item_id, status |-> "failure",
          error |-> response.text]

\* line 258
update_work_item_payloads(work_item_updates) ==
    /\ pc = "idle"
    /\ op' = "update_work_item_payloads"
    /\ input_data' = [work_item_updates |-> work_item_updates]
    /\ update_results' = <<>>
    /\ idx' = 1
    /\ pc' = "update_loop"
    /\ UNCHANGED <<requests, responses, result_data, has_more, next_url,
                   selected_work_item_details, ret>>

\* lines 260-283: one iteration of the for loop
update_work_item_payloads_loop(response) ==
    /\ pc = "update_loop"
    /\ idx <= Len(input_data.work_item_updates)
    /\ LET update == input_data.work_item_updates[idx] IN
        IF ValidUpdate(update)
        THEN /\ requests' = Append(requests,
                    Request("POST", payload_url(update.work_item_id),
                            Some([payload |-> update.payload])))
             /\ responses' = Append(responses, response)
             /\ update_results' =
                    Append(update_results, update_outcome(update.work_item_id, response))
        ELSE UNCHANGED <<requests, responses, update_results>>
    /\ idx' = idx + 1
    /\ UNCHANGED <<pc, op, input_data, result_data, has_more, next_url,
                   selected_work_item_details, ret>>

\* line 285
update_work_item_payloads_return ==
    /\ pc = "update_loop"
    /\ idx > Len(input_data.work_item_updates)
    /\ pc' = "returned"
    /\ ret' = Result([updates |-> update_results])
    /\ UNCHANGED <<op, input_data, requests, responses, result_data, has_more,
                   next_url, idx, selected_work_item_details, update_results>>

\* ------------------------------------------------------- retry_work_items
batch_url == <<BASE_URL, "/", workspace_id, "/work-items/batch">>

retry_payload_DropFirst(work_item_ids) ==
    [batch_operation |-> "retry",
     work_item_ids |-> IF work_item_ids = <<>> THEN <<>> ELSE Tail(work_item_ids)]
retry_payload(work_item_ids) ==
    [batch_operation |-> "retry", work_item_ids |-> work_item_ids]

retry_work_items(work_item_ids, response) ==
    /\ pc = "idle"
    /\ op' = "retry_work_items"
    /\ input_data' = [work_item_ids |-> work_item_ids]
    /\ requests' = Append(requests,
           Request("POST", batch_url, Some(retry_payload(work_item_ids))))
    /\ responses' = Append(responses, response)
    /\ IF StatusOk(response.status_code)
       THEN pc' = "returned" /\ ret' = Result(json(response))
       ELSE pc' = "raised" /\ ret' = ActionError("Failed to retry work items: ", response)
    /\ UNCHANGED <<result_data, has_more, next_url, idx,
                   selected_work_item_details, update_results>>

\* ------------------------------------------------------- specifications
Init ==
    /\ pc = "idle"
    /\ op = "none"
    /\ input_data = EmptyDict
    /\ requests = <<>>
    /\ responses = <<>>
    /\ result_data = <<>>
    /\ has_more = FALSE
    /\ next_url = None
    /\ idx = 1
    /\ selected_work_item_details = <<>>
    /\ update_results = <<>>
    /\ ret = NoReturn

\* Inputs and remote responses the specifications draw from.
SimpleResponses ==
    {Response(s, [ok |-> "yes"]) : s \in OkStatuses}
        \cup {Response(s, d) : s \in FailStatuses, d \in ErrDocs}

\* a short pagination: two continuing pages, two terminal pages, failures
FewPageResponses ==
    {Response(200, PageDoc(Some(<<"a">>), Some(TRUE), Some(Some(n)))) : n \in NextUrls}
        \cup {Response(201, PageDoc(Some(<<"b">>), Some(FALSE), Some(Some("next1")))),
              Response(200, PageDoc(None, Some(TRUE), None))}
        \cup {Response(s, d) : s \in FailStatuses, d \in ErrDocs}

StateInputs ==
    Opt(WorkItemStates \cup ProcessRunStates \cup {"bogus", ""})
LimitInputs == {None, Some(10), Some(0)}

WorkItemIds == {"w1", "w2"}
ItemDocs ==
    {Entry("id", i) @@ rest :
        i \in {None} \cup {Some(Some(w)) : w \in WorkItemIds},
        rest \in {EmptyDict,
                  [exception |-> None, payload |-> Some([k |-> "v"]), state |-> "done"],
                  [exception |-> Some("boom"), created_at |-> "today"]}}
ItemResponses ==
    {Response(200, d) : d \in ItemDocs}
        \cup {Response(201, [id |-> Some("w1"), payload |-> None])}
        \cup {Response(s, d) : s \in FailStatuses, d \in ErrDocs}

UpdateInputs ==
    {WorkItemUpdate("w1", [k |-> "v1"]), WorkItemUpdate("w2", [k |-> "v2"]),
     WorkItemUpdate("", [k |-> "v1"]), WorkItemUpdate("w1", EmptyDict)}

ListStatesSmall == {None, Some("failed")}

NextList ==
    \/ \E st \in ListStatesSmall, response \in PageResponses :
          list_work_items(ListWorkItemsInput("p1", "r1", st), response)
    \/ \E response \in PageResponses : list_work_items_loop(response)
    \/ list_work_items_return

SpecList == Init /\ [][NextList]_vars

Next ==
    \/ \E response \in SimpleResponses : list_processes(response)
    \/ \E limit \in LimitInputs, st \in StateInputs, response \in SimpleResponses :
          list_process_runs(ListProcessRunsInput("p1", limit, st), response)
    \/ \E response \in SimpleResponses : list_step_runs("r1", response)
    \/ \E response \in SimpleResponses : list_step_run_artifacts("s1", response)
    \/ \E response \in SimpleResponses : get_step_run_artifact("s1", "f1", response)
    \/ \E response \in SimpleResponses : list_workers(response)
    \/ \E response \in SimpleResponses : list_assets(response)
    \/ \E response \in SimpleResponses : get_asset("as1", response)
    \/ \E response \in SimpleResponses : start_process_run("p1", response)
    \/ \E st \in StateInputs, response \in FewPageResponses :
          list_work_items(ListWorkItemsInput("p1", "r1", st), response)
    \/ \E response \in FewPageResponses : list_work_items_loop(response)
    \/ list_work_items_return
    \/ \E ids \in SeqUpTo(WorkItemIds, MaxIds) : get_all_work_items(ids)
    \/ \E response \in ItemResponses : get_all_work_items_loop(response)
    \/ get_all_work_items_return
    \/ \E updates \in SeqUpTo(UpdateInputs, MaxIds) : update_work_item_payloads(updates)
    \/ \E response \in SimpleResponses : update_work_item_payloads_loop(response)
    \/ update_work_item_payloads_return
    \/ \E ids \in SeqUpTo(WorkItemIds, MaxIds), response \in SimpleResponses :
          retry_work_items(ids, response)

Spec == Init /\ [][Next]_vars

\* ======================================================= properties
LastResponse == responses[Len(responses)]
Failed(response) == response.status_code \notin {200, 201}
Returned(name) == op = name /\ pc = "returned"

\* ------------------------------------------------------- C1
PageData(response) ==
    IF "data" \in DOMAIN json(response) THEN json(response).data ELSE <<>>
PageHasMore(response) ==
    "has_more" \in DOMAIN json(response) /\ json(response).has_more = TRUE
PageHasNext(response) ==
    "next" \in DOMAIN json(response) /\ json(response).next # None

RECURSIVE ConcatPages(_)
ConcatPages(rs) ==
    IF rs = <<>> THEN <<>> ELSE PageData(Head(rs)) \o ConcatPages(Tail(rs))

\* p1..pn all succeed, p1..p(n-1) have has_more=true and a non-null next
\* that is the URL of the following GET, pn has has_more=false or no next
PageChain ==
    /\ Len(responses) >= 1
    /\ \A i \in DOMAIN responses : ~Failed(responses[i])
    /\ \A i \in 1..(Len(responses) - 1) :
          /\ PageHasMore(responses[i])
          /\ PageHasNext(responses[i])
          /\ requests[i + 1].url = <<json(responses[i]).next[1]>>
    /\ ~PageHasMore(LastResponse) \/ ~PageHasNext(LastResponse)

C3_PaginationFailFast ==
    op = "list_work_items" =>
        \A i \in DOMAIN responses :
            Failed(responses[i]) =>
                /\ i = Len(requests)
                /\ pc = "raised"
                /\ ret.kind = "error"
                /\ "result" \notin DOMAIN ret

C3_Witness ==
    /\ op = "list_work_items"
    /\ pc = "raised"
    /\ Len(responses) = 2
    /\ Failed(responses[2])
    /\ result_data # <<>>

\* ------------------------------------------------------- C4
TerminalPage(response) ==
    ~Failed(response) /\ (~PageHasMore(response) \/ ~PageHasNext(response))

\* C4: a successful response with has_more=false or with no next is followed
\* by no GET, and when the first page is terminal the result is that page's
\* data after exactly one GET.
C4_PaginationTermination ==
    op = "list_work_items" =>
        /\ \A i \in DOMAIN responses :
              TerminalPage(responses[i]) => Len(requests) = i
        /\ (pc = "returned" /\ TerminalPage(responses[1])) =>
              /\ Len(requests) = 1
              /\ ret.result = [data |-> PageData(responses[1])]

C4_Witness ==
    /\ Returned("list_work_items")
    /\ Len(requests) = 2
    /\ PageHasMore(LastResponse)
    /\ ~PageHasNext(LastResponse)
    /\ PageData(LastResponse) # <<>>

C4_WitnessFalseWithNext ==
    /\ Returned("list_work_items")
    /\ Len(requests) = 1
    /\ ~PageHasMore(LastResponse)
    /\ PageHasNext(LastResponse)

\* ------------------------------------------------------- C2, C5
NonEmptyUpdate(update) == update.work_item_id # "" /\ update.payload # EmptyDict
ValidUpdates(updates) == SelectSeq(updates, NonEmptyUpdate)

\* C2: update_work_item_payloads returns one outcome per valid request, in
\* input order; the i-th outcome is success iff the i-th valid request's own
\* POST returned 200 or 201 and failure otherwise, and every valid request is
\* POSTed whatever the statuses of the others.
C2_BatchIsolation ==
    Returned("update_work_item_payloads") =>
        LET valid == ValidUpdates(input_data.work_item_updates)
            updates == ret.result.updates
        IN /\ ret.kind = "result"
           /\ Len(updates) = Len(valid)
           /\ Len(requests) = Len(valid)
           /\ \A i \in DOMAIN valid :
                 /\ requests[i].method = "POST"
                 /\ requests[i].json = Some([payload |-> valid[i].payload])
                 /\ updates[i].work_item_id = valid[i].work_item_id
                 /\ updates[i].status \in {"success", "failure"}
                 /\ updates[i].status = "success" <=>
                        responses[i].status_code \in {200, 201}

C2_Witness ==
    /\ Returned("update_work_item_payloads")
    /\ Len(input_data.work_item_updates) = 3
    /\ Len(ret.result.updates) = 3
    /\ ret.result.updates[1].status = "success"
    /\ ret.result.updates[2].status = "failure"
    /\ ret.result.updates[3].status = "success"
    /\ responses[2].status_code = 500
    /\ responses[3].status_code = 201

\* C5: an entry with an empty work_item_id or an empty payload causes no POST
\* and no outcome record: at every point of the traversal the outcomes and
\* the POSTs are those of the valid entries seen so far, in input order.
C5_ValidationSkip ==
    (op = "update_work_item_payloads" /\ pc \in {"update_loop", "returned"}) =>
        LET seen == ValidUpdates(SubSeq(input_data.work_item_updates, 1, idx - 1))
        IN /\ Len(update_results) = Len(seen)
           /\ Len(requests) = Len(seen)
           /\ \A i \in DOMAIN seen :
                 /\ update_results[i].work_item_id = seen[i].work_item_id
                 /\ requests[i].url[5] = seen[i].work_item_id
           /\ pc = "returned" =>
                 /\ idx = Len(input_data.work_item_updates) + 1
                 /\ ret.result.updates = update_results

C5_Witness ==
    /\ Returned("update_work_item_payloads")
    /\ Len(input_data.work_item_updates) = 3
    /\ ~NonEmptyUpdate(input_data.work_item_updates[2])
    /\ input_data.work_item_updates[2].payload = EmptyDict
    /\ Len(ret.result.updates) = 2
    /\ ret.result.updates[1].work_item_id # ret.result.updates[2].work_item_id

\* ------------------------------------------------------- C6, C7
FieldOrNull(doc, k) == IF k \in DOMAIN doc THEN doc[k] ELSE None

\* C6: when every GET succeeded, get_all_work_items returns one record per
\* input id, in input order, the k-th being the id, exception and payload of
\* the record fetched for the k-th id (null when missing) and nothing else;
\* duplicates are fetched again.
C6_Projection ==
    Returned("get_all_work_items") =>
        LET ids == input_data.work_item_ids
            data == ret.result.data
        IN /\ ret.kind = "result"
           /\ DOMAIN ret.result = {"data"}
           /\ Len(data) = Len(ids)
           /\ Len(requests) = Len(ids)
           /\ \A k \in DOMAIN ids :
                 /\ requests[k].method = "GET"
                 /\ requests[k].url[Len(requests[k].url)] = ids[k]
                 /\ DOMAIN data[k] = {"id", "exception", "payload"}
                 /\ \A f \in {"id", "exception", "payload"} :
                       data[k][f] = FieldOrNull(json(responses[k]), f)

C6_Witness ==
    /\ Returned("get_all_work_items")
    /\ input_data.work_item_ids = <<"w1", "w2", "w1">>
    /\ "state" \in DOMAIN json(responses[1])
    /\ "payload" \notin DOMAIN json(responses[2])
    /\ ret.result.data[2].payload = None
    /\ ret.result.data[1] # ret.result.data[3]

\* C7: in get_all_work_items a GET with a status other than 200/201 is the
\* last request issued, the operation has raised and delivers no result.
C7_DetailFetchFailFast ==
    op = "get_all_work_items" =>
        \A k \in DOMAIN responses :
            Failed(responses[k]) =>
                /\ k = Len(requests)
                /\ pc = "raised"
                /\ ret.kind = "error"
                /\ "result" \notin DOMAIN ret

C7_Witness ==
    /\ op = "get_all_work_items"
    /\ pc = "raised"
    /\ Len(input_data.work_item_ids) = 3
    /\ Len(requests) = 2
    /\ Failed(responses[2])
    /\ Len(selected_work_item_details) = 1

\* ------------------------------------------------------- C8
\* C8: retry_work_items issues exactly one POST carrying the whole id list
\* in order with batch_operation "retry", returns the response body on
\* 200/201 and otherwise raises an error carrying the raw body text.
C8_SingleBatchRetry ==
    op = "retry_work_items" =>
        /\ Len(requests) = 1
        /\ requests[1].method = "POST"
        /\ requests[1].json = Some([batch_operation |-> "retry",
                                    work_item_ids |-> input_data.work_item_ids])
        /\ IF responses[1].status_code \in {200, 201}
           THEN pc = "returned" /\ ret = [kind |-> "result", result |-> json(responses[1])]
           ELSE /\ pc = "raised"
                /\ ret.kind = "error"
                /\ responses[1].text \in Range(ret.message)

C8_Witness ==
    /\ op = "retry_work_items"
    /\ input_data.work_item_ids = <<"w2", "w1", "w2">>
    /\ pc = "raised"
    /\ responses[1].status_code = 204

\* ------------------------------------------------------- C9
HasStateParam(url) == \E i \in DOMAIN url : url[i] = "&state="
EndsWithState(url, state) ==
    /\ Len(url) >= 2
    /\ url[Len(url) - 1] = "&state="
    /\ url[Len(url)] = state
    /\ \A i \in 1..(Len(url) - 2) : url[i] # "&state="

StateFilterApplied(url, state, allowed) ==
    IF state # None /\ state[1] \in allowed
    THEN EndsWithState(url, state[1])
    ELSE ~HasStateParam(url)

\* C9: the state filter is in the request URL iff it is in the operation's
\* allow-set, any other value only leaves it out (the request is still made
\* and an error comes only from the HTTP status), and list_work_items
\* fetches the follow-up pages at the remote next values unmodified.
C9_StateFilterAllowList ==
    /\ op = "list_process_runs" =>
          /\ Len(requests) = 1
          /\ StateFilterApplied(requests[1].url, input_data.state,
                 {"new", "in_progress", "completed", "unresolved", "stopping"})
          /\ pc = "raised" => Failed(responses[1])
    /\ op = "list_work_items" =>
          /\ Len(requests) >= 1
          /\ StateFilterApplied(requests[1].url, input_data.state,
                 {"new", "pending", "in_progress", "failed", "done"})
          /\ pc = "raised" => Failed(LastResponse)
          /\ \A k \in 2..Len(requests) :
                requests[k].url = <<json(responses[k - 1]).next[1]>>

C9_Witness ==
    /\ Returned("list_work_items")
    /\ input_data.state = Some("completed")
    /\ ~HasStateParam(requests[1].url)
    /\ Len(requests) = 3
    /\ requests[2].url # requests[3].url

C9_WitnessRuns ==
    /\ op = "list_process_runs"
    /\ input_data.state = Some("failed")
    /\ ~HasStateParam(requests[1].url)
    /\ pc = "returned"

\* ------------------------------------------------------- C10
PropagatingOps ==
    {"list_processes", "list_process_runs", "list_step_runs",
     "list_step_run_artifacts", "get_step_run_artifact", "list_workers",
     "list_assets", "get_asset", "start_process_run", "list_work_items",
     "get_all_work_items", "retry_work_items"}

CarriesStatus(message, response) ==
    \E i \in DOMAIN message : message[i] = [num |-> response.status_code]
CarriesBody(message, response) ==
    \E i \in DOMAIN message : message[i] = response.text

====
